---- MODULE Spec2Model ----
(***************************************************************************)
(* Model of update_components.py: the ComponentUpdater that resolves the   *)
(* latest release or commit of each configured component, downloads its    *)
(* files and records the installed revision in <component>/version.json.   *)
(*                                                                         *)
(* Strings that the code slices, splits or compares are sequences of       *)
(* tokens; the empty string is <<>>.  Every HTTP response is an input of   *)
(* the handler that issues the request: an operation is modelled by the    *)
(* set of outcomes it can have, one per combination of responses.          *)
(***************************************************************************)
EXTENDS Integers, Sequences, FiniteSets, TLC

VARIABLES
    version_json,   \* component name -> contents of <name>/version.json, for the files that exist
    disk,           \* destination path -> bytes of the downloaded file, for the files that exist
    now,            \* the wall clock read by datetime.now()
    last,           \* trace of the most recent operation of the updater
    config_file     \* what open() and json.load find at the path of the configuration file

vars == <<version_json, disk, now, last, config_file>>

(***************************************************************************)
(* Bounds and program constants                                            *)
(***************************************************************************)
MaxTime == 1

ShaPrefixLen == 8

\* Python's None where a string is expected, and where a dict is expected.
None == <<"None">>
NoneDict == [none |-> TRUE]

GITHUB == "https://github.com/"

(***************************************************************************)
(* Python helpers                                                          *)
(***************************************************************************)
Min(S) == CHOOSE m \in S : \A n \in S : m <= n

\* d.get(k, default)
Get(d, k, default) == IF k \in DOMAIN d THEN d[k] ELSE default

\* s[:n]
Prefix(s, n) == SubSeq(s, 1, IF Len(s) < n THEN Len(s) ELSE n)

\* s.replace(tok, "")
Replace(s, tok) == SelectSeq(s, LAMBDA t : t # tok)

\* s.split("/"): the segments between the "/" tokens, empty segments included
RECURSIVE SplitFrom(_, _, _, _)
SplitFrom(s, i, cur, acc) ==
    IF i > Len(s) THEN Append(acc, cur)
    ELSE IF s[i] = "/" THEN SplitFrom(s, i + 1, <<>>, Append(acc, cur))
    ELSE SplitFrom(s, i + 1, Append(cur, s[i]), acc)

Split(s) == SplitFrom(s, 1, <<>>, <<>>)

\* os.path.basename of a source path given as its sequence of segments
basename(source_path) == source_path[Len(source_path)]

\* os.path.join(component_name, destination)
join(component_name, destination) == <<component_name, destination>>

\* datetime.now().isoformat()
isoformat(t) == <<"T", t>>

\* bool(latest_info): None and the empty dict are falsy
Truthy(info) == info # NoneDict /\ DOMAIN info # {}

(***************************************************************************)
(* Configuration (components_config.json), loaded once by _load_config     *)
(***************************************************************************)
\* the file as the script finds it at startup (lines 27-28): a JSON document, no file,
\* a file that open() may not read, or a file that is not JSON
ConfigFileStates == {"valid", "missing", "unreadable", "unparseable"}

\* the keys of the JSON document, in the order of the file
components_config_keys == <<"card_a", "card_b", "card_c">>

\* the JSON document
components_config ==
    ("card_a" :> [source_url |-> <<GITHUB, "own_a", "/", "repo_a">>,
                  branch |-> "develop",
                  files |-> << [source |-> <<"dist", "a.js">>, destination |-> "a.js"],
                               [source |-> <<"a.css">>, destination |-> "a.css"] >>])
 @@ ("card_b" :> [source_url |-> <<GITHUB, "own_b", "/", "repo_b">>,
                  use_releases |-> FALSE,
                  files |-> << [source |-> <<"b.js">>, destination |-> "b.js"] >>])
 @@ ("card_c" :> [source_url |-> <<GITHUB, "own_c">>,
                  use_releases |-> TRUE,
                  files |-> << [source |-> <<"c.js">>, destination |-> "c.js"] >>])

\* _load_config treating any file it cannot load as an absent one
_load_config_catch_all(file) ==
    IF file = "valid" THEN [raised |-> FALSE, value |-> components_config]
    ELSE [raised |-> FALSE, value |-> <<>>]

\* lines 25-32: json.load of the file; only FileNotFoundError is caught (line 30) and gives
\* {}, a PermissionError of open() or a JSONDecodeError of json.load leaves the function
\* as an exception
_load_config(file) ==
    IF file = "valid" THEN [raised |-> FALSE, value |-> components_config]
    ELSE IF file = "missing" THEN [raised |-> FALSE, value |-> <<>>]
    ELSE [raised |-> TRUE, value |-> <<>>]

\* line 260: ComponentUpdater(args.config) returns an updater unless __init__ raised
constructed == ~_load_config(config_file).raised

\* self.config (line 23); there is none when the constructor raised
config == _load_config(config_file).value

\* list(self.config.keys()): the keys in the order of the file
config_keys == SelectSeq(components_config_keys, LAMBDA name : name \in DOMAIN config)

\* names that update_component can be called with: the configured ones and one that is not
ComponentNames == DOMAIN components_config \cup {"card_zz"}

(***************************************************************************)
(* Upstream responses                                                      *)
(***************************************************************************)
\* full commit SHAs (longer than the stored prefix)
Sha1 == <<"1", "0", "0", "0", "0", "0", "0", "0", "e", "f">>
Sha2 == <<"2", "0", "0", "0", "0", "0", "0", "0", "e", "f">>

\* release tags; the first one reads like a truncated commit hash
Tag1 == <<"1", "0", "0", "0", "0", "0", "0", "0">>
Tag2 == <<"v", "2">>

\* JSON bodies of GET /repos/{owner}/{repo}/releases/latest
ReleaseResponses ==
    { [tag_name |-> Tag1, assets |-> <<>>],
      [tag_name |-> Tag2,
       assets |-> << [name |-> "bundle.zip",
                      browser_download_url |-> [asset |-> "bundle.zip", of |-> Tag2, id |-> 1]],
                     [name |-> "a.js",
                      browser_download_url |-> [asset |-> "a.js", of |-> Tag2, id |-> 2]],
                     [name |-> "a.js",
                      browser_download_url |-> [asset |-> "a.js", of |-> Tag2, id |-> 3]] >>] }

\* JSON bodies of GET /repos/{owner}/{repo}/commits/{branch}
CommitResponses == { [sha |-> Sha1], [sha |-> Sha2] }

\* response.content of a successful GET of a file URL
Body(url) == [content_of |-> url]

(***************************************************************************)
(* Version store                                                           *)
(***************************************************************************)
\* _get_current_version: the parsed version.json, or None when the file does not exist
_get_current_version(component_name, vj) ==
    IF component_name \in DOMAIN vj THEN vj[component_name] ELSE NoneDict

\* _save_version_info updating the stored dict with the new one instead of replacing it
_save_version_info_merge(component_name, version_info, vj) ==
    [n \in DOMAIN vj \cup {component_name} |->
        IF n # component_name THEN vj[n]
        ELSE IF n \notin DOMAIN vj THEN version_info
        ELSE [k \in DOMAIN vj[n] \cup DOMAIN version_info |->
                 IF k \in DOMAIN version_info THEN version_info[k] ELSE vj[n][k]]]

\* _save_version_info: (over)writes <component_name>/version.json
_save_version_info(component_name, version_info, vj) ==
    [n \in DOMAIN vj \cup {component_name} |->
        IF n = component_name THEN version_info ELSE vj[n]]

\* _calculate_file_hash: the SHA-256 of the file's bytes, "" when the file does not exist
_calculate_file_hash(file_path, dk) ==
    IF file_path \in DOMAIN dk THEN <<"sha256", dk[file_path]>> ELSE <<>>

(***************************************************************************)
(* Revision resolver.  Each operator yields the set of outcomes            *)
(* [value, reqs]: the returned dict (or None) and the requests issued.     *)
(***************************************************************************)
\* _get_latest_release asking the API whatever the number of path segments
_get_latest_release_unchecked(repo_url) ==
    LET parts == Split(Replace(repo_url, GITHUB))
        api_url == [api |-> "releases/latest", owner |-> parts[1],
                    repo |-> IF Len(parts) < 2 THEN <<>> ELSE parts[2]]
    IN  { [value |-> r, reqs |-> << [url |-> api_url, ok |-> TRUE] >>] : r \in ReleaseResponses }
        \cup { [value |-> NoneDict, reqs |-> << [url |-> api_url, ok |-> FALSE] >>] }

\* lines 51-68
_get_latest_release(repo_url) ==
    LET parts == Split(Replace(repo_url, GITHUB)) IN
    IF Len(parts) < 2 THEN { [value |-> NoneDict, reqs |-> <<>>] }
    ELSE LET api_url == [api |-> "releases/latest", owner |-> parts[1], repo |-> parts[2]] IN
         { [value |-> r, reqs |-> << [url |-> api_url, ok |-> TRUE] >>] : r \in ReleaseResponses }
         \cup { [value |-> NoneDict, reqs |-> << [url |-> api_url, ok |-> FALSE] >>] }

\* _get_latest_commit going on to a third branch name when 'main' fails too
RECURSIVE _get_latest_commit_third_branch(_, _)
_get_latest_commit_third_branch(repo_url, branch) ==
    LET parts == Split(Replace(repo_url, GITHUB)) IN
    IF Len(parts) < 2 THEN { [value |-> NoneDict, reqs |-> <<>>] }
    ELSE LET api_url == [api |-> "commits", owner |-> parts[1], repo |-> parts[2],
                         branch |-> branch]
             failed == << [url |-> api_url, ok |-> FALSE] >>
         IN  { [value |-> r, reqs |-> << [url |-> api_url, ok |-> TRUE] >>] : r \in CommitResponses }
             \cup (IF branch \in {"master", "main"}
                   THEN { [value |-> o.value, reqs |-> failed \o o.reqs] :
                              o \in _get_latest_commit_third_branch(repo_url,
                                        IF branch = "master" THEN "main" ELSE "develop") }
                   ELSE { [value |-> NoneDict, reqs |-> failed] })

RECURSIVE _get_latest_commit(_, _)
_get_latest_commit(repo_url, branch) ==
    LET parts == Split(Replace(repo_url, GITHUB)) IN
    IF Len(parts) < 2 THEN { [value |-> NoneDict, reqs |-> <<>>] }
    ELSE LET api_url == [api |-> "commits", owner |-> parts[1], repo |-> parts[2],
                         branch |-> branch]
             failed == << [url |-> api_url, ok |-> FALSE] >>
         IN  { [value |-> r, reqs |-> << [url |-> api_url, ok |-> TRUE] >>] : r \in CommitResponses }
             \cup (IF branch = "master"
                   THEN { [value |-> o.value, reqs |-> failed \o o.reqs] :
                              o \in _get_latest_commit(repo_url, "main") }
                   ELSE { [value |-> NoneDict, reqs |-> failed] })

(***************************************************************************)
(* Fetcher                                                                 *)
(***************************************************************************)
\* _download_file: the outcomes [ok, disk] of GET url followed by the write of destination
_download_file(url, destination, dk) ==
    { [ok |-> TRUE,
       disk |-> [p \in DOMAIN dk \cup {destination} |->
                    IF p = destination THEN Body(url) ELSE dk[p]]],
      [ok |-> FALSE, disk |-> dk] }

\* lines 169-183: the download URL of one file
raw_url(repo_url, rev, source_path) == [repo_url |-> repo_url, raw |-> rev, path |-> source_path]

\* download_url building the raw URL of a commit from the 8-character identifier
download_url_short_sha(repo_url, latest_info, use_releases, source_path) ==
    IF use_releases
    THEN LET assets == Get(latest_info, "assets", <<>>)
             hits == { j \in 1..Len(assets) : assets[j].name = basename(source_path) }
         IN  IF hits # {} THEN assets[Min(hits)].browser_download_url
             ELSE raw_url(repo_url, latest_info.tag_name, source_path)
    ELSE raw_url(repo_url, Prefix(latest_info.sha, ShaPrefixLen), source_path)

\* lines 169-183: the URL a file is downloaded from
download_url(repo_url, latest_info, use_releases, source_path) ==
    IF use_releases
    THEN LET assets == Get(latest_info, "assets", <<>>)
             hits == { j \in 1..Len(assets) : assets[j].name = basename(source_path) }
         IN  IF hits # {} THEN assets[Min(hits)].browser_download_url
             ELSE raw_url(repo_url, latest_info.tag_name, source_path)
    ELSE raw_url(repo_url, latest_info.sha, source_path)

\* download_files going on to the next file after a failed download
RECURSIVE download_files_skip_failed(_, _, _, _, _, _, _, _)
download_files_skip_failed(component_name, repo_url, files_to_download, latest_info, use_releases, i, dk, acc) ==
    IF i > Len(files_to_download)
    THEN { [ok |-> TRUE, disk |-> dk, reqs |-> acc.reqs, updated_files |-> acc.updated_files] }
    ELSE LET file_info == files_to_download[i]
             source_path == file_info.source
             dest_path == join(component_name, file_info.destination)
             url == download_url(repo_url, latest_info, use_releases, source_path)
         IN  UNION { download_files_skip_failed(component_name, repo_url, files_to_download,
                         latest_info, use_releases, i + 1, d.disk,
                         [reqs |-> Append(acc.reqs, [url |-> url, dest |-> dest_path, ok |-> d.ok]),
                          updated_files |-> IF d.ok THEN Append(acc.updated_files, dest_path)
                                            ELSE acc.updated_files])
                   : d \in _download_file(url, dest_path, dk) }

\* download_files finishing the loop after a failed download and returning False at its end
RECURSIVE download_files_finish_loop(_, _, _, _, _, _, _, _)
download_files_finish_loop(component_name, repo_url, files_to_download, latest_info, use_releases, i, dk, acc) ==
    IF i > Len(files_to_download)
    THEN { [ok |-> ~Get(acc, "failed", FALSE), disk |-> dk, reqs |-> acc.reqs,
            updated_files |-> acc.updated_files] }
    ELSE LET file_info == files_to_download[i]
             source_path == file_info.source
             dest_path == join(component_name, file_info.destination)
             url == download_url(repo_url, latest_info, use_releases, source_path)
         IN  UNION { download_files_finish_loop(component_name, repo_url, files_to_download,
                         latest_info, use_releases, i + 1, d.disk,
                         [reqs |-> Append(acc.reqs, [url |-> url, dest |-> dest_path, ok |-> d.ok]),
                          updated_files |-> IF d.ok THEN Append(acc.updated_files, dest_path)
                                            ELSE acc.updated_files,
                          failed |-> Get(acc, "failed", FALSE) \/ ~d.ok])
                   : d \in _download_file(url, dest_path, dk) }

\* lines 164-189: the loop over files_to_download from index i on; it yields the outcomes
\* [ok, disk, reqs, updated_files], ok = FALSE where line 189 returns
RECURSIVE download_files(_, _, _, _, _, _, _, _)
download_files(component_name, repo_url, files_to_download, latest_info, use_releases, i, dk, acc) ==
    IF i > Len(files_to_download)
    THEN { [ok |-> TRUE, disk |-> dk, reqs |-> acc.reqs, updated_files |-> acc.updated_files] }
    ELSE LET file_info == files_to_download[i]
             source_path == file_info.source
             dest_path == join(component_name, file_info.destination)
             url == download_url(repo_url, latest_info, use_releases, source_path)
         IN  UNION { IF d.ok
                     THEN download_files(component_name, repo_url, files_to_download,
                              latest_info, use_releases, i + 1, d.disk,
                              [reqs |-> Append(acc.reqs, [url |-> url, dest |-> dest_path, ok |-> TRUE]),
                               updated_files |-> Append(acc.updated_files, dest_path)])
                     ELSE { [ok |-> FALSE, disk |-> d.disk,
                             reqs |-> Append(acc.reqs, [url |-> url, dest |-> dest_path, ok |-> FALSE]),
                             updated_files |-> acc.updated_files] }
                   : d \in _download_file(url, dest_path, dk) }

Range(s) == { s[j] : j \in 1..Len(s) }

(***************************************************************************)
(* update_component                                                        *)
(***************************************************************************)
\* lines 132-142: the outcomes [use_releases, latest_info, reqs] of the resolution
update_resolve(component_config, repo_url) ==
    IF Get(component_config, "use_releases", TRUE)
    THEN UNION { IF Truthy(r.value)
                 THEN { [use_releases |-> TRUE, latest_info |-> r.value, reqs |-> r.reqs] }
                 ELSE { [use_releases |-> FALSE, latest_info |-> c.value,
                         reqs |-> r.reqs \o c.reqs] :
                            c \in _get_latest_commit(repo_url, "master") }
               : r \in _get_latest_release(repo_url) }
    ELSE { [use_releases |-> FALSE, latest_info |-> c.value, reqs |-> c.reqs] :
               c \in _get_latest_commit(repo_url, "master") }

\* latest_version_of keeping the whole SHA of a commit
latest_version_of_full_sha(latest_info, use_releases) ==
    IF use_releases THEN latest_info.tag_name ELSE latest_info.sha

\* lines 149-154: the identifier of the resolved revision
latest_version_of(latest_info, use_releases) ==
    IF use_releases THEN latest_info.tag_name ELSE Prefix(latest_info.sha, ShaPrefixLen)

\* current_hash_of reading the commit_hash key whatever the kind of the resolution
current_hash_of_commit_only(current_version, use_releases) ==
    IF Truthy(current_version) THEN Get(current_version, "commit_hash", None) ELSE None

\* lines 151, 154: the stored identifier the resolved one is compared with
current_hash_of(current_version, use_releases) ==
    IF Truthy(current_version)
    THEN Get(current_version, IF use_releases THEN "version" ELSE "commit_hash", None)
    ELSE None

\* version_info_of without the commit_hash key of a commit-tracked component
version_info_of_version_only(latest_version, repo_url, use_releases, updated_files, dk, t) ==
    [version |-> latest_version, source_url |-> repo_url, last_updated |-> isoformat(t),
     files |-> updated_files,
     file_hashes |-> [f \in Range(updated_files) |-> _calculate_file_hash(f, dk)]]

\* lines 192-199: the record written after a complete download
version_info_of(latest_version, repo_url, use_releases, updated_files, dk, t) ==
    LET file_hashes == [f \in Range(updated_files) |-> _calculate_file_hash(f, dk)] IN
    IF use_releases
    THEN [version |-> latest_version, source_url |-> repo_url, last_updated |-> isoformat(t),
          files |-> updated_files, file_hashes |-> file_hashes]
    ELSE [version |-> latest_version, source_url |-> repo_url, last_updated |-> isoformat(t),
          commit_hash |-> latest_version,
          files |-> updated_files, file_hashes |-> file_hashes]

\* The trace of one call: where it returned, its locals and the requests it issued.
Trace(component_name, exit, ret, rs, latest_version, current_hash, dl_reqs, updated_files) ==
    [name |-> component_name, exit |-> exit, ret |-> ret,
     use_releases |-> rs.use_releases, latest_info |-> rs.latest_info,
     latest_version |-> latest_version, current_hash |-> current_hash,
     meta_reqs |-> rs.reqs, dl_reqs |-> dl_reqs, updated_files |-> updated_files]

\* finish_update saving a record of the files written so far also when a download failed
finish_update_partial_save(component_name, repo_url, rs, latest_version, current_hash, d, vj, t) ==
    [ret |-> d.ok,
     version_json |-> _save_version_info(component_name,
         version_info_of(latest_version, repo_url, rs.use_releases,
                         d.updated_files, d.disk, t), vj),
     disk |-> d.disk,
     trace |-> Trace(component_name, IF d.ok THEN "updated" ELSE "download_failed", d.ok,
                     rs, latest_version, current_hash, d.reqs, d.updated_files)]

\* lines 185-203: what the call does with the outcome d of the download loop: it returns
\* False if a download failed (line 189), else it saves the new record (line 201)
finish_update(component_name, repo_url, rs, latest_version, current_hash, d, vj, t) ==
    IF d.ok
    THEN [ret |-> TRUE,
          version_json |-> _save_version_info(component_name,
              version_info_of(latest_version, repo_url, rs.use_releases,
                              d.updated_files, d.disk, t), vj),
          disk |-> d.disk,
          trace |-> Trace(component_name, "updated", TRUE, rs, latest_version,
                          current_hash, d.reqs, d.updated_files)]
    ELSE [ret |-> FALSE, version_json |-> vj, disk |-> d.disk,
          trace |-> Trace(component_name, "download_failed", FALSE, rs,
                          latest_version, current_hash, d.reqs, d.updated_files)]

\* update_resolved finding nothing to do for a component that has no version.json
update_resolved_skip_absent(component_name, repo_url, files_to_download, current_version, rs, vj, dk, t) ==
    IF ~Truthy(rs.latest_info)
    THEN { [ret |-> FALSE, version_json |-> vj, disk |-> dk,
            trace |-> Trace(component_name, "no_info", FALSE, rs, None, None, <<>>, <<>>)] }
    ELSE
    LET latest_version == latest_version_of(rs.latest_info, rs.use_releases)
        current_hash == current_hash_of(current_version, rs.use_releases)
    IN  IF current_hash = latest_version \/ ~Truthy(current_version)
        THEN { [ret |-> TRUE, version_json |-> vj, disk |-> dk,
                trace |-> Trace(component_name, "up_to_date", TRUE, rs, latest_version,
                                current_hash, <<>>, <<>>)] }
        ELSE { finish_update(component_name, repo_url, rs, latest_version, current_hash,
                             d, vj, t)
             : d \in download_files(component_name, repo_url, files_to_download,
                                    rs.latest_info, rs.use_releases, 1, dk,
                                    [reqs |-> <<>>, updated_files |-> <<>>]) }

\* lines 144-203, after the resolution rs
update_resolved(component_name, repo_url, files_to_download, current_version, rs, vj, dk, t) ==
    IF ~Truthy(rs.latest_info)
    THEN { [ret |-> FALSE, version_json |-> vj, disk |-> dk,
            trace |-> Trace(component_name, "no_info", FALSE, rs, None, None, <<>>, <<>>)] }
    ELSE
    LET latest_version == latest_version_of(rs.latest_info, rs.use_releases)
        current_hash == current_hash_of(current_version, rs.use_releases)
    IN  IF current_hash = latest_version
        THEN { [ret |-> TRUE, version_json |-> vj, disk |-> dk,
                trace |-> Trace(component_name, "up_to_date", TRUE, rs, latest_version,
                                current_hash, <<>>, <<>>)] }
        ELSE { finish_update(component_name, repo_url, rs, latest_version, current_hash,
                             d, vj, t)
             : d \in download_files(component_name, repo_url, files_to_download,
                                    rs.latest_info, rs.use_releases, 1, dk,
                                    [reqs |-> <<>>, updated_files |-> <<>>]) }

\* update_component: the outcomes [ret, version_json, disk, trace] of one call
update_component(component_name, vj, dk, t) ==
    IF component_name \notin DOMAIN config
    THEN { [ret |-> FALSE, version_json |-> vj, disk |-> dk,
            trace |-> Trace(component_name, "not_configured", FALSE,
                            [use_releases |-> TRUE, latest_info |-> NoneDict, reqs |-> <<>>],
                            None, None, <<>>, <<>>)] }
    ELSE LET component_config == config[component_name]
             repo_url == component_config.source_url
             files_to_download == component_config.files
             current_version == _get_current_version(component_name, vj)
         IN  UNION { update_resolved(component_name, repo_url, files_to_download,
                                     current_version, rs, vj, dk, t)
                   : rs \in update_resolve(component_config, repo_url) }

(***************************************************************************)
(* update_all_components                                                   *)
(***************************************************************************)
\* what update_all_components keeps of one call (line 209): its return value and its effect
\* on the disk, with the place where it returned
update_component_result(component_name, vj, dk, t) ==
    { [ret |-> o.ret, exit |-> o.trace.exit, version_json |-> o.version_json, disk |-> o.disk]
      : o \in update_component(component_name, vj, dk, t) }

\* update_all_from leaving the loop at the first component whose update fails
RECURSIVE update_all_from_abort(_, _, _, _, _)
update_all_from_abort(i, vj, dk, t, acc) ==
    IF i > Len(config_keys)
    THEN { [results |-> acc.results, calls |-> acc.calls, version_json |-> vj, disk |-> dk] }
    ELSE LET component_name == config_keys[i] IN
         UNION { update_all_from_abort(IF o.ret THEN i + 1 ELSE Len(config_keys) + 1,
                     o.version_json, o.disk, t,
                     [results |-> (component_name :> o.ret) @@ acc.results,
                      calls |-> Append(acc.calls,
                          [name |-> component_name, ret |-> o.ret, exit |-> o.exit])])
               : o \in update_component_result(component_name, vj, dk, t) }

\* lines 207-210: the loop over config.keys() from index i on; acc holds results and, for
\* each call made so far, its argument, its return value and where it returned
RECURSIVE update_all_from(_, _, _, _, _)
update_all_from(i, vj, dk, t, acc) ==
    IF i > Len(config_keys)
    THEN { [results |-> acc.results, calls |-> acc.calls, version_json |-> vj, disk |-> dk] }
    ELSE LET component_name == config_keys[i] IN
         UNION { update_all_from(i + 1, o.version_json, o.disk, t,
                     [results |-> (component_name :> o.ret) @@ acc.results,
                      calls |-> Append(acc.calls,
                          [name |-> component_name, ret |-> o.ret, exit |-> o.exit])])
               : o \in update_component_result(component_name, vj, dk, t) }

update_all_components(vj, dk, t) ==
    update_all_from(1, vj, dk, t, [results |-> <<>>, calls |-> <<>>])

(***************************************************************************)
(* check_for_updates                                                       *)
(***************************************************************************)
NA == <<"N", "/", "A">>

\* lines 223-229: the outcomes [use_releases, latest_info, reqs] of the resolution
check_resolve(component_config, repo_url) ==
    IF Get(component_config, "use_releases", TRUE)
    THEN UNION { IF ~Truthy(r.value)
                 THEN { [use_releases |-> FALSE, latest_info |-> c.value,
                         reqs |-> r.reqs \o c.reqs] :
                            c \in _get_latest_commit(repo_url, "master") }
                 ELSE { [use_releases |-> TRUE, latest_info |-> r.value, reqs |-> r.reqs] }
               : r \in _get_latest_release(repo_url) }
    ELSE { [use_releases |-> FALSE, latest_info |-> c.value, reqs |-> c.reqs] :
               c \in _get_latest_commit(repo_url, "master") }

\* check_entry reporting the stored identifier as it is, None included
check_entry_raw_current(component_name, repo_url, current_version, rs, updates_available) ==
    IF Truthy(rs.latest_info)
    THEN LET latest_version == latest_version_of(rs.latest_info, rs.use_releases)
             current == current_hash_of(current_version, rs.use_releases)
         IN  IF current # latest_version
             THEN (component_name :>
                      [current |-> current, latest |-> latest_version, url |-> repo_url])
                  @@ updates_available
             ELSE updates_available
    ELSE updates_available

\* check_entry reading the stored identifier under 'commit_hash' for either kind
check_entry_commit_key(component_name, repo_url, current_version, rs, updates_available) ==
    IF Truthy(rs.latest_info)
    THEN LET latest_version ==
                 IF rs.use_releases THEN rs.latest_info.tag_name
                 ELSE Prefix(rs.latest_info.sha, ShaPrefixLen)
             current ==
                 IF Truthy(current_version)
                 THEN Get(current_version, "commit_hash", None)
                 ELSE None
         IN  IF current # latest_version
             THEN (component_name :>
                      [current |-> IF current = None \/ current = <<>> THEN NA ELSE current,
                       latest |-> latest_version,
                       url |-> repo_url]) @@ updates_available
             ELSE updates_available
    ELSE updates_available

\* lines 231-244: one component's entry of updates_available, if it gets one
check_entry(component_name, repo_url, current_version, rs, updates_available) ==
    IF Truthy(rs.latest_info)
    THEN LET latest_version ==
                 IF rs.use_releases THEN rs.latest_info.tag_name
                 ELSE Prefix(rs.latest_info.sha, ShaPrefixLen)
             current ==
                 IF Truthy(current_version)
                 THEN Get(current_version,
                          IF rs.use_releases THEN "version" ELSE "commit_hash", None)
                 ELSE None
         IN  IF current # latest_version
             THEN (component_name :>
                      [current |-> IF current = None \/ current = <<>> THEN NA ELSE current,
                       latest |-> latest_version,
                       url |-> repo_url]) @@ updates_available
             ELSE updates_available
    ELSE updates_available

\* lines 216-246: the loop over config.keys() from index i on; it yields the outcomes
\* [updates_available, calls], calls being the resolution of each component in turn
RECURSIVE check_from(_, _, _)
check_from(i, vj, acc) ==
    IF i > Len(config_keys) THEN { acc }
    ELSE LET component_name == config_keys[i]
             component_config == config[component_name]
             repo_url == component_config.source_url
             current_version == _get_current_version(component_name, vj)
         IN  UNION { check_from(i + 1, vj,
                        [updates_available |->
                             check_entry(component_name, repo_url, current_version, rs,
                                         acc.updates_available),
                         calls |-> Append(acc.calls,
                             [name |-> component_name, use_releases |-> rs.use_releases,
                              latest_info |-> rs.latest_info, meta_reqs |-> rs.reqs])])
                   : rs \in check_resolve(component_config, repo_url) }

check_for_updates(vj) == check_from(1, vj, [updates_available |-> <<>>, calls |-> <<>>])

(***************************************************************************)
(* State machine                                                           *)
(***************************************************************************)
Init ==
    /\ version_json = <<>>
    /\ disk = <<>>
    /\ now = 0
    /\ last = [op |-> "init"]
    /\ config_file \in ConfigFileStates

\* main --component NAME (line 271)
UpdateComponent(component_name) ==
    /\ constructed
    /\ UNCHANGED config_file
    /\ \E o \in update_component(component_name, version_json, disk, now) :
        /\ version_json' = o.version_json
        /\ disk' = o.disk
        /\ last' = [op |-> "update_component", arg |-> component_name,
                    calls |-> <<o.trace>>, ret |-> o.ret]
        /\ UNCHANGED now

\* the status the interpreter exits with when main returns: main has no sys.exit and
\* returns None on every path (lines 262-278, 280-281)
ExitStatus == 0

\* lines 273-278: what main prints and how it ends after update_all_components; failed
\* holds the names of results.items() whose value is False, in the order of the dict
main_report(results) ==
    LET failed == SelectSeq(config_keys,
                            LAMBDA name : name \in DOMAIN results /\ ~results[name])
    IN  [failed |-> failed, exit_status |-> ExitStatus]

\* main without arguments (line 273)
UpdateAllComponents ==
    /\ constructed
    /\ UNCHANGED config_file
    /\ \E o \in update_all_components(version_json, disk, now) :
        /\ version_json' = o.version_json
        /\ disk' = o.disk
        /\ last' = [op |-> "update_all_components", calls |-> o.calls,
                    results |-> o.results,
                    failed |-> main_report(o.results).failed,
                    exit_status |-> main_report(o.results).exit_status]
        /\ UNCHANGED now

\* CheckForUpdates dropping the version.json of every component it reports
CheckForUpdates_dropping ==
    /\ constructed
    /\ UNCHANGED config_file
    /\ \E o \in check_for_updates(version_json) :
        /\ last' = [op |-> "check_for_updates", checks |-> o.calls,
                    updates_available |-> o.updates_available]
        /\ version_json' = [n \in DOMAIN version_json \ DOMAIN o.updates_available |->
                                version_json[n]]
        /\ UNCHANGED <<disk, now>>

\* main --check (line 263)
CheckForUpdates ==
    /\ constructed
    /\ UNCHANGED config_file
    /\ \E o \in check_for_updates(version_json) :
        /\ last' = [op |-> "check_for_updates", checks |-> o.calls,
                    updates_available |-> o.updates_available]
        /\ UNCHANGED <<version_json, disk, now>>

\* time passes between two runs of the script
Tick ==
    /\ now < MaxTime
    /\ now' = now + 1
    /\ last' = [op |-> "tick"]
    /\ UNCHANGED <<version_json, disk, config_file>>

Next ==
    \/ \E component_name \in ComponentNames : UpdateComponent(component_name)
    \/ UpdateAllComponents
    \/ CheckForUpdates
    \/ Tick

Spec == Init /\ [][Next]_vars

(***************************************************************************)
(* Repeated updates against an upstream that does not change: the latest   *)
(* release and the heads of both branches are fixed, requests may fail.    *)
(***************************************************************************)
LiveRelease == CHOOSE r \in ReleaseResponses : r.tag_name = Tag2
LiveMaster == [sha |-> Sha1]
LiveMain == [sha |-> Sha2]

\* the revision that the call resolved is the one upstream holds at the place it asked
UpstreamUnchanged(tr) ==
    Truthy(tr.latest_info) =>
        IF tr.use_releases THEN tr.latest_info = LiveRelease
        ELSE LET asked == tr.meta_reqs[Len(tr.meta_reqs)].url.branch
             IN  tr.latest_info = IF asked = "master" THEN LiveMaster ELSE LiveMain

\* every request of the call succeeded (requests.get returned, raise_for_status passed)
AllSucceeded(tr) ==
    /\ \A k \in 1..Len(tr.meta_reqs) : tr.meta_reqs[k].ok
    /\ \A k \in 1..Len(tr.dl_reqs) : tr.dl_reqs[k].ok

\* the configured components whose repository reference can be queried
LiveComponents ==
    { c \in DOMAIN components_config :
          Len(Split(Replace(components_config[c].source_url, GITHUB))) >= 2 }

LiveInit == Init /\ config_file = "valid"

\* main --component NAME, run again and again
LiveUpdate(component_name) ==
    UpdateComponent(component_name) /\ UpstreamUnchanged(last'.calls[1])

\* a run in which no request fails
LiveUpdateAllOk(component_name) ==
    LiveUpdate(component_name) /\ AllSucceeded(last'.calls[1])

LiveNext == \E component_name \in ComponentNames : LiveUpdate(component_name)

\* the network is not down forever: for each component a run with no failed request
\* eventually happens
LiveSpec ==
    /\ LiveInit
    /\ [][LiveNext]_vars
    /\ \A c \in LiveComponents : WF_vars(LiveUpdateAllOk(c))

(***************************************************************************)
(* Properties                                                              *)
(***************************************************************************)
\* the trace of the call, when the operation was update_component
Call(l) == l.calls[1]

\* the identifier that version.json of component c holds under the key of the given kind
Stored(vj, c, use_releases) ==
    IF c \in DOMAIN vj
    THEN IF use_releases
         THEN IF "version" \in DOMAIN vj[c] THEN vj[c].version ELSE None
         ELSE IF "commit_hash" \in DOMAIN vj[c] THEN vj[c].commit_hash ELSE None
    ELSE None

\* the identifier of a resolved revision: its tag, or the first 8 characters of its SHA
Identifier(latest_info, use_releases) ==
    IF use_releases THEN latest_info.tag_name ELSE SubSeq(latest_info.sha, 1, 8)

\* version.json of component c is the same file, or just as absent, after the step
SameRecord(c) ==
    /\ c \in DOMAIN version_json' <=> c \in DOMAIN version_json
    /\ c \in DOMAIN version_json => version_json'[c] = version_json[c]

\* a download of the call failed
DownloadFailed(tr) == tr.dl_reqs # <<>> /\ ~tr.dl_reqs[Len(tr.dl_reqs)].ok

\* C1 - Atomic record commit: when update_component's download of the file at index k
\* fails, version.json of the component is after the attempt what it was before it (the
\* same record, or still absent), and the files before index k are on disk with the
\* content of the new revision.
C1_Step ==
    (last'.op = "update_component" /\ DownloadFailed(Call(last')))
    => LET tr == Call(last')
           c == tr.name
           k == Len(tr.dl_reqs)
       IN  /\ ~last'.ret
           /\ SameRecord(c)
           /\ \A i \in 1..(k - 1) :
                LET dest == join(c, config[c].files[i].destination) IN
                /\ dest \in DOMAIN disk'
                /\ disk'[dest] = Body(download_url(config[c].source_url, tr.latest_info,
                                          tr.use_releases, config[c].files[i].source))

C1_AtomicRecordCommit == [][C1_Step]_vars

\* a download failed at the second file of a component that keeps the record of another
\* revision: the first file on disk is no longer the one the record describes
C1_Witness ==
    /\ last.op = "update_component"
    /\ DownloadFailed(Call(last))
    /\ Len(Call(last).dl_reqs) = 2
    /\ Call(last).name \in DOMAIN version_json
    /\ LET c == Call(last).name
           dest == join(c, config[c].files[1].destination)
       IN  version_json[c].file_hashes[dest] # <<"sha256", disk[dest]>>

\* C2 - No-op short circuit: when the identifier stored for a component equals the
\* resolved latest one, update_component returns True, requests no file and leaves the
\* version records and the files as they were.
C2_Step ==
    (/\ last'.op = "update_component"
     /\ Truthy(Call(last').latest_info)
     /\ Stored(version_json, Call(last').name, Call(last').use_releases)
            = Identifier(Call(last').latest_info, Call(last').use_releases))
    => /\ last'.ret
       /\ Call(last').dl_reqs = <<>>
       /\ version_json' = version_json
       /\ disk' = disk

C2_NoOpShortCircuit == [][C2_Step]_vars

\* a release-tracked component found up to date
C2_Witness ==
    /\ last.op = "update_component"
    /\ last.ret
    /\ Call(last).use_releases
    /\ Call(last).dl_reqs = <<>>
    /\ Stored(version_json, Call(last).name, TRUE) = Call(last).latest_info.tag_name

\* C3 - Idempotence: an update_component that follows a successful update_component of the
\* same component, and gets the same revision from upstream, returns True without a
\* download and leaves the version record as it was.
C3_Step ==
    (/\ last.op = "update_component"
     /\ last.ret
     /\ last'.op = "update_component"
     /\ Call(last').name = Call(last).name
     /\ Call(last').use_releases = Call(last).use_releases
     /\ Call(last').latest_info = Call(last).latest_info)
    => /\ last'.ret
       /\ Call(last').dl_reqs = <<>>
       /\ version_json' = version_json

C3_Idempotence == [][C3_Step]_vars

\* a commit-tracked component found up to date at a later time than its record was written
C3_Witness ==
    /\ last.op = "update_component"
    /\ last.ret
    /\ ~Call(last).use_releases
    /\ Call(last).dl_reqs = <<>>
    /\ Stored(version_json, Call(last).name, FALSE)
           = SubSeq(Call(last).latest_info.sha, 1, 8)
    /\ version_json[Call(last).name].last_updated # isoformat(now)

\* C4 - Check-only non-mutation: check_for_updates leaves every version.json and every
\* component file as it was, also when it reports updates.
C4_Step ==
    last'.op = "check_for_updates" => version_json' = version_json /\ disk' = disk

C4_CheckOnlyNonMutation == [][C4_Step]_vars

\* a check that reports a newer revision for a component that has a record
C4_Witness ==
    /\ last.op = "check_for_updates"
    /\ \E c \in DOMAIN last.updates_available :
          /\ c \in DOMAIN version_json
          /\ last.updates_available[c].current # NA

\* the commit lookups among the metadata requests of a resolution, in the order issued
CommitReqs(meta_reqs) == SelectSeq(meta_reqs, LAMBDA r : r.url.api = "commits")

\* one resolution: 'master' is asked first, 'main' once and only after 'master' failed,
\* nothing after that, and the resolution fails when 'main' fails too
FallbackOnce(tr) ==
    LET q == CommitReqs(tr.meta_reqs) IN
    /\ Len(q) <= 2
    /\ q # <<>> => q[1].url.branch = "master"
    /\ (Len(q) = 2) <=> (q # <<>> /\ ~q[1].ok)
    /\ Len(q) = 2 => q[2].url.branch = "main"
    /\ (Len(q) = 2 /\ ~q[2].ok) => ~Truthy(tr.latest_info)

\* C5 - Branch fallback: a commit resolution whose lookup on 'master' fails asks for 'main'
\* exactly once; if that fails too the resolution fails; no other branch and no second
\* attempt on either is ever queried.
C5_BranchFallback ==
    /\ last.op = "update_component" =>
          /\ FallbackOnce(Call(last))
          /\ (Len(CommitReqs(Call(last).meta_reqs)) = 2
              /\ ~CommitReqs(Call(last).meta_reqs)[2].ok) => ~last.ret
    /\ last.op = "check_for_updates" =>
          \A i \in 1..Len(last.checks) : FallbackOnce(last.checks[i])

\* the commit-tracked component, both lookups failed
C5_Witness ==
    /\ last.op = "update_component"
    /\ Call(last).name = "card_b"
    /\ Len(Call(last).meta_reqs) = 2
    /\ ~Call(last).meta_reqs[1].ok
    /\ ~Call(last).meta_reqs[2].ok
    /\ ~last.ret

\* C6 - Release-to-commit downgrade: when the release query of a component that prefers
\* releases fails and a commit lookup succeeds, the same update_component call goes on with
\* the commit; if no download fails it returns True, every file it requested was the raw
\* URL at the full SHA (all the configured files, in order, unless the stored commit hash
\* was already current), and the record holds the first 8 characters of the SHA.
C6_ReleaseToCommit ==
    (/\ last.op = "update_component"
     /\ Call(last).name \in DOMAIN config
     /\ Call(last).meta_reqs # <<>>
     /\ Call(last).meta_reqs[1].url.api = "releases/latest"
     /\ ~Call(last).meta_reqs[1].ok
     /\ \E j \in 1..Len(Call(last).meta_reqs) :
            Call(last).meta_reqs[j].url.api = "commits" /\ Call(last).meta_reqs[j].ok
     /\ \A j \in 1..Len(Call(last).dl_reqs) : Call(last).dl_reqs[j].ok)
    => LET tr == Call(last)
           c == tr.name
           files == config[c].files
           sha == tr.latest_info.sha
       IN  /\ last.ret
           /\ ~tr.use_releases
           /\ Len(tr.dl_reqs) \in {0, Len(files)}
           /\ Len(tr.dl_reqs) = 0 => tr.current_hash = SubSeq(sha, 1, 8)
           /\ \A j \in 1..Len(tr.dl_reqs) :
                /\ tr.dl_reqs[j].url = [repo_url |-> config[c].source_url, raw |-> sha,
                                        path |-> files[j].source]
                /\ tr.dl_reqs[j].dest = <<c, files[j].destination>>
           /\ c \in DOMAIN version_json
           /\ version_json[c].version = SubSeq(sha, 1, 8)
           /\ version_json[c].commit_hash = SubSeq(sha, 1, 8)

\* the release query failed, 'main' gave the commit and both files were downloaded
C6_Witness ==
    /\ last.op = "update_component"
    /\ Call(last).name = "card_a"
    /\ Len(Call(last).meta_reqs) = 3
    /\ Call(last).meta_reqs[3].ok
    /\ Len(Call(last).dl_reqs) = 2
    /\ last.ret
    /\ version_json["card_a"].commit_hash = SubSeq(Call(last).latest_info.sha, 1, 8)

\* C7 - Update-all independence: update_all_components calls update_component once for
\* every configured component, in configuration order, whatever the earlier calls
\* returned; the map it returns has one entry per component, the return value of that
\* component's call: a component reported False keeps its version record, one reported
\* True has a version record.
C7_Step ==
    last'.op = "update_all_components"
    => /\ [i \in 1..Len(last'.calls) |-> last'.calls[i].name] = config_keys
       /\ DOMAIN last'.results = DOMAIN config
       /\ \A i \in 1..Len(last'.calls) :
            LET c == last'.calls[i].name IN
            /\ last'.results[c] = last'.calls[i].ret
            /\ ~last'.results[c] => SameRecord(c)
            /\ last'.results[c] => c \in DOMAIN version_json'

C7_UpdateAllIndependence == [][C7_Step]_vars

\* the first component failed and the second was updated all the same
C7_Witness ==
    /\ config_file = "valid"
    /\ last.op = "update_all_components"
    /\ ~last.results["card_a"]
    /\ last.results["card_b"]
    /\ last.calls[2].exit = "updated"
    /\ "card_b" \in DOMAIN version_json

\* C8 (as claimed) - every configured component without a version record has an entry in
\* the result of check_for_updates, with current 'N/A', whatever the metadata queries gave.
C8_AlwaysReported ==
    last.op = "check_for_updates" =>
        \A c \in DOMAIN config :
            c \notin DOMAIN version_json =>
                /\ c \in DOMAIN last.updates_available
                /\ last.updates_available[c].current = NA

\* C8 (amended) - a configured component without a version record has an entry in the
\* result of check_for_updates exactly when one of its metadata queries succeeded, and
\* the entry then reports current as 'N/A' and latest as the resolved identifier.
C8_ReportedWhenResolved ==
    last.op = "check_for_updates" =>
        \A i \in 1..Len(last.checks) :
            LET ck == last.checks[i]
                c == ck.name
                resolved == \E j \in 1..Len(ck.meta_reqs) : ck.meta_reqs[j].ok
            IN  c \notin DOMAIN version_json =>
                   /\ c \in DOMAIN last.updates_available <=> resolved
                   /\ resolved =>
                        /\ last.updates_available[c].current = NA
                        /\ last.updates_available[c].latest
                               = Identifier(ck.latest_info, ck.use_releases)

\* a check that reports a component without a record and leaves out another one whose
\* queries failed
C8_Witness ==
    /\ last.op = "check_for_updates"
    /\ "card_a" \notin DOMAIN version_json
    /\ "card_b" \notin DOMAIN version_json
    /\ "card_a" \in DOMAIN last.updates_available
    /\ last.updates_available["card_a"].current = NA
    /\ "card_b" \notin DOMAIN last.updates_available

\* how a version record was written: with the commit_hash key by the commit path
WrittenAsRelease(rec) == "commit_hash" \notin DOMAIN rec

\* the comparison of one resolution reads an identifier from the stored record only if the
\* record was written as the kind that was resolved
SameKindCompared(tr) ==
    (/\ tr.name \in DOMAIN version_json
     /\ Truthy(tr.latest_info)
     /\ Stored(version_json, tr.name, tr.use_releases) # None)
    => WrittenAsRelease(version_json[tr.name]) = tr.use_releases

\* C9 - across update_component and check_for_updates runs on a component, the staleness
\* comparison never compares an identifier stored as one kind (release tag, truncated
\* commit hash) with a latest identifier of the other kind.
C9_Step ==
    /\ last'.op = "update_component" => SameKindCompared(Call(last'))
    /\ last'.op = "check_for_updates" =>
          \A i \in 1..Len(last'.checks) : SameKindCompared(last'.checks[i])

C9_NoCrossKindComparison == [][C9_Step]_vars

\* every hash of every version record is the hash of the file served for that destination
\* at a revision that has the record's identifier, and the record lists the configured
\* destinations
RecordsReflectDownloads ==
    \A c \in DOMAIN version_json :
        LET rec == version_json[c]
            rel == WrittenAsRelease(rec)
            files == config[c].files
        IN  /\ rec.files = [i \in 1..Len(files) |-> join(c, files[i].destination)]
            /\ DOMAIN rec.file_hashes = Range(rec.files)
            /\ \E info \in (IF rel THEN ReleaseResponses ELSE CommitResponses) :
                 /\ Identifier(info, rel) = rec.version
                 /\ \A i \in 1..Len(files) :
                      rec.file_hashes[rec.files[i]]
                          = <<"sha256", Body(download_url(config[c].source_url, info, rel,
                                                          files[i].source))>>

\* the step that changes the version record of c has downloaded every file of c
ReplacedAfterAllDownloads(c) ==
    ~SameRecord(c) =>
        /\ c \in DOMAIN version_json'
        /\ \A i \in 1..Len(config[c].files) :
             LET dest == join(c, config[c].files[i].destination) IN
             /\ dest \in DOMAIN disk'
             /\ version_json'[c].file_hashes[dest] = <<"sha256", disk'[dest]>>
        /\ last'.op = "update_component" =>
             /\ Call(last').name = c
             /\ Len(Call(last').dl_reqs) = Len(config[c].files)
             /\ \A j \in 1..Len(Call(last').dl_reqs) : Call(last').dl_reqs[j].ok
        /\ last'.op = "update_all_components" =>
             \E i \in 1..Len(last'.calls) :
                 last'.calls[i] = [name |-> c, ret |-> TRUE, exit |-> "updated"]
        /\ last'.op \in {"update_component", "update_all_components"}

\* C10 - Record/file invariant: whatever update_component, update_all_components and
\* check_for_updates calls were made and whatever failed in them, every hash of an existing
\* version record with identifier X is the hash of the content downloaded for that
\* destination at revision X, and a record is replaced only by a step in which every file
\* of the plan was downloaded.
C10_Step ==
    /\ RecordsReflectDownloads'
    /\ \A c \in DOMAIN config : ReplacedAfterAllDownloads(c)

C10_RecordFileInvariant == [][C10_Step]_vars

\* a record that replaced the record of another revision
C10_Witness ==
    /\ last.op = "update_component"
    /\ last.ret
    /\ Call(last).dl_reqs # <<>>
    /\ Call(last).current_hash # None
    /\ version_json[Call(last).name].version = Call(last).latest_version
    /\ RecordsReflectDownloads


\* C11: after update_all_components, main ends with a non-zero exit status when at least
\* one component's update returned False, and with status zero only when every update
\* returned True.
C11_ExitStatusReportsFailure ==
    last.op = "update_all_components" =>
        ((\E name \in DOMAIN last.results : ~last.results[name]) <=> last.exit_status # 0)


\* what update_all_components and check_for_updates returned, when one of them was the
\* operation, is empty
EmptyResults ==
    /\ last.op = "update_all_components" => last.results = <<>> /\ last.calls = <<>>
    /\ last.op = "check_for_updates" => last.updates_available = <<>> /\ last.checks = <<>>

\* C12 as stated: a configuration file that is missing, unreadable or unparseable gives a
\* constructed updater with an empty component set; update_all_components returns an
\* empty map and check_for_updates an empty result.
C12_BadFileGivesEmptySet ==
    config_file \in {"missing", "unreadable", "unparseable"} =>
        constructed /\ DOMAIN config = {} /\ EmptyResults

\* C12, amended: a missing configuration file gives a constructed updater with an empty
\* component set, update_all_components returning an empty map and check_for_updates an
\* empty result, nothing being written; with an unreadable or unparseable file the
\* constructor raises and no operation of the updater ever runs.
C12_MissingFileGivesEmptySet ==
    /\ config_file = "missing" =>
            /\ constructed /\ DOMAIN config = {} /\ EmptyResults
            /\ version_json = <<>> /\ disk = <<>>
    /\ config_file \in {"unreadable", "unparseable"} =>
            ~constructed /\ last.op \in {"init", "tick"}

C12_Witness ==
    /\ config_file = "missing"
    /\ last.op = "update_all_components"
    /\ last.results = <<>>


\* the commit lookups of one resolution of component name start at its configured branch
\* ('master' when it has none), and 'main' is asked only after a failed lookup of 'master'
ConfiguredBranchFirst(name, meta_reqs) ==
    LET q == CommitReqs(meta_reqs) IN
    /\ q # <<>> => q[1].url.branch = Get(config[name], "branch", "master")
    /\ \A j \in 2..Len(q) :
           q[j].url.branch = "main" /\ q[j - 1].url.branch = "master" /\ ~q[j - 1].ok

\* C13: the commit resolution of update_component and of check_for_updates asks for the
\* component's configured branch first ('master' when the configuration names none) and
\* asks for 'main' only when the branch that failed was 'master'.
C13_ConfiguredBranchFirst ==
    /\ (last.op = "update_component" /\ Call(last).name \in DOMAIN config) =>
          ConfiguredBranchFirst(Call(last).name, Call(last).meta_reqs)
    /\ last.op = "check_for_updates" =>
          \A i \in 1..Len(last.checks) :
              ConfiguredBranchFirst(last.checks[i].name, last.checks[i].meta_reqs)


\* a step of update_component on a configured component without version.json whose latest
\* revision was resolved: nothing stored is compared, and the first configured file is
\* requested; a step of update_all_components never finds such a component up to date
C14_Step ==
    /\ (/\ last'.op = "update_component"
        /\ Call(last').name \in DOMAIN config
        /\ Call(last').name \notin DOMAIN version_json
        /\ Truthy(Call(last').latest_info)) =>
          LET tr == Call(last') IN
          /\ tr.exit \in {"updated", "download_failed"}
          /\ tr.current_hash = None
          /\ tr.dl_reqs # <<>>
          /\ tr.dl_reqs[1].dest = join(tr.name, config[tr.name].files[1].destination)
    /\ last'.op = "update_all_components" =>
          \A i \in 1..Len(last'.calls) :
              last'.calls[i].name \notin DOMAIN version_json =>
                  last'.calls[i].exit # "up_to_date"

\* C14: for a component with no stored version record, whatever the resolved latest
\* identifier is, update_component does not take the no-op path: it starts downloading the
\* configured files.
C14_AbsentRecordForcesDownload == [][C14_Step]_vars

\* a first attempt on card_b that resolved a commit and lost its download: the record is
\* still absent
C14_Witness ==
    /\ last.op = "update_component"
    /\ Call(last).name = "card_b"
    /\ "card_b" \notin DOMAIN version_json
    /\ Call(last).current_hash = None
    /\ Call(last).latest_version = Prefix(Sha2, ShaPrefixLen)
    /\ Len(Call(last).dl_reqs) = 1


\* the file at path dest is after the step what it was before it
SameFile(dest) ==
    /\ dest \in DOMAIN disk' <=> dest \in DOMAIN disk
    /\ dest \in DOMAIN disk => disk'[dest] = disk[dest]

\* a step of update_component that requested downloads: request j is for the j-th
\* configured file, every request but the last succeeded, a failed last request ends the
\* call with False, and neither the failed file nor a later one is written
C15_Step ==
    (/\ last'.op = "update_component"
     /\ Call(last').dl_reqs # <<>>) =>
        LET tr == Call(last')
            q == tr.dl_reqs
            files == config[tr.name].files
        IN  /\ Len(q) <= Len(files)
            /\ \A j \in 1..Len(q) : q[j].dest = join(tr.name, files[j].destination)
            /\ \A j \in 1..(Len(q) - 1) : q[j].ok
            /\ q[Len(q)].ok => Len(q) = Len(files)
            /\ ~q[Len(q)].ok =>
                  /\ ~last'.ret
                  /\ tr.exit = "download_failed"
                  /\ \A j \in Len(q)..Len(files) :
                         SameFile(join(tr.name, files[j].destination))

\* C15: within one update attempt the files are requested in the configured order, one at
\* a time; at the first file whose download fails the attempt stops and returns False, and
\* no later file is requested or written in that attempt.
C15_OrderedDownloadWithAbort == [][C15_Step]_vars

\* card_a, whose first file failed on the first attempt: the second file was never written
C15_Witness ==
    /\ last.op = "update_component"
    /\ Call(last).name = "card_a"
    /\ Len(Call(last).dl_reqs) = 1
    /\ ~Call(last).dl_reqs[1].ok
    /\ ~last.ret
    /\ join("card_a", "a.css") \notin DOMAIN disk


\* the URL the rule gives for the file at source_path of a component at repo_url, the
\* resolved revision being latest_info: for a release the URL of the first asset named as
\* the last segment of the path, the raw URL at the tag when no asset has that name; for
\* a commit the raw URL at the full SHA
RuleUrl(repo_url, latest_info, use_releases, source_path) ==
    IF use_releases
    THEN LET assets == latest_info.assets
             named == { k \in 1..Len(assets) : assets[k].name = source_path[Len(source_path)] }
         IN  IF named = {}
             THEN [repo_url |-> repo_url, raw |-> latest_info.tag_name, path |-> source_path]
             ELSE assets[CHOOSE k \in named : \A m \in named : k <= m].browser_download_url
    ELSE [repo_url |-> repo_url, raw |-> latest_info.sha, path |-> source_path]

\* C16: every file request of update_component goes to the URL of the rule: for a release,
\* the download URL of the first asset named as the basename of the source path, or the
\* raw URL of repository, tag and source path when no asset matches; for a commit, the
\* raw URL of repository, full SHA (not its 8-character prefix) and source path, whatever
\* assets there are.
C16_UrlResolution ==
    last.op = "update_component" =>
        LET tr == Call(last) IN
        \A j \in 1..Len(tr.dl_reqs) :
            LET file_info == config[tr.name].files[j] IN
            /\ tr.dl_reqs[j].url = RuleUrl(config[tr.name].source_url, tr.latest_info,
                                           tr.use_releases, file_info.source)
            /\ ~tr.use_releases =>
                  /\ tr.dl_reqs[j].url.raw = tr.latest_info.sha
                  /\ tr.dl_reqs[j].url.raw # tr.latest_version

\* card_a at release v2: its first file comes from the first asset named a.js, its second
\* file, which no asset is named after, from the raw URL at the tag
C16_Witness ==
    /\ last.op = "update_component"
    /\ Call(last).name = "card_a"
    /\ Call(last).use_releases
    /\ Len(Call(last).dl_reqs) = 2
    /\ Call(last).dl_reqs[1].url = [asset |-> "a.js", of |-> Tag2, id |-> 2]
    /\ Call(last).dl_reqs[2].url =
           [repo_url |-> config["card_a"].source_url, raw |-> Tag2, path |-> <<"a.css">>]


\* the keys of a record written for a revision of the given kind
RecordKeys(use_releases) ==
    {"version", "source_url", "last_updated", "files", "file_hashes"}
        \cup (IF use_releases THEN {} ELSE {"commit_hash"})

\* C17: when update_component returned True after downloading, version.json of the
\* component holds the latest identifier (the tag, or the first 8 characters of the SHA),
\* the configured destinations in configured order as its files, and for each of them a
\* non-empty hash, that of the file on disk; it has the keys of a record of the resolved
\* kind and no other, so nothing of the previous record is left.
C17_RecordAfterSuccess ==
    (/\ last.op = "update_component"
     /\ last.ret
     /\ Call(last).dl_reqs # <<>>) =>
        LET tr == Call(last)
            c == tr.name
            files == config[c].files
            rec == version_json[c]
        IN  /\ c \in DOMAIN version_json
            /\ DOMAIN rec = RecordKeys(tr.use_releases)
            /\ rec.version = Identifier(tr.latest_info, tr.use_releases)
            /\ ~tr.use_releases => rec.commit_hash = Identifier(tr.latest_info, FALSE)
            /\ rec.files = [j \in 1..Len(files) |-> join(c, files[j].destination)]
            /\ DOMAIN rec.file_hashes = { join(c, files[j].destination) : j \in 1..Len(files) }
            /\ \A dest \in DOMAIN rec.file_hashes :
                   /\ rec.file_hashes[dest] # <<>>
                   /\ dest \in DOMAIN disk
                   /\ rec.file_hashes[dest] = <<"sha256", disk[dest]>>
            /\ rec.source_url = config[c].source_url
            /\ rec.last_updated = <<"T", now>>

\* card_a updated to a release over a record that a commit had written: the stored
\* identifier that was compared is the prefix of a SHA, and the new record has no
\* commit_hash
C17_Witness ==
    /\ last.op = "update_component"
    /\ last.ret
    /\ Call(last).name = "card_a"
    /\ Call(last).use_releases
    /\ Call(last).latest_version = Tag2
    /\ Call(last).current_hash = SubSeq(Sha2, 1, 8)
    /\ Len(Call(last).dl_reqs) = 2
    /\ "commit_hash" \notin DOMAIN version_json["card_a"]


\* a repository reference that, the host prefix removed, has no "/" and so fewer than two
\* path segments
InvalidReference(repo_url) ==
    LET path == SelectSeq(repo_url, LAMBDA tok : tok # GITHUB)
    IN  \A i \in 1..Len(path) : path[i] # "/"

\* the call tr could not resolve a revision: the name is not configured, the reference is
\* invalid, or every metadata request it issued failed
ResolutionFailed(tr) ==
    \/ tr.name \notin DOMAIN config
    \/ InvalidReference(config[tr.name].source_url)
    \/ \A k \in 1..Len(tr.meta_reqs) : ~tr.meta_reqs[k].ok

\* a step of update_component whose resolution failed returns False without a file request
\* and leaves every version.json and every file as it was; it issued no metadata request
\* when the name is not configured or the reference is invalid.  In a step of
\* update_all_components the call for a component with an invalid reference returns False
\* and leaves its record and files as they were.
C18_Step ==
    /\ (last'.op = "update_component" /\ ResolutionFailed(Call(last'))) =>
          LET tr == Call(last') IN
          /\ ~last'.ret
          /\ tr.dl_reqs = <<>>
          /\ version_json' = version_json
          /\ disk' = disk
          /\ (tr.name \notin DOMAIN config \/ InvalidReference(config[tr.name].source_url))
                 => tr.meta_reqs = <<>>
          /\ (tr.name \in DOMAIN config /\ ~InvalidReference(config[tr.name].source_url))
                 => Len(CommitReqs(tr.meta_reqs)) = 2
    /\ last'.op = "update_all_components" =>
          \A i \in 1..Len(last'.calls) :
              LET c == last'.calls[i].name IN
              InvalidReference(config[c].source_url) =>
                  /\ ~last'.calls[i].ret
                  /\ SameRecord(c)
                  /\ \A j \in 1..Len(config[c].files) :
                         SameFile(join(c, config[c].files[j].destination))

\* C18: update_component returns False, requests no file and writes nothing (no file, no
\* version record) when the name is not configured, when the repository reference has
\* fewer than two path segments, or when release and commit resolution both fail; in the
\* first two cases it issues no metadata request either.
C18_ContainedResolutionFailure == [][C18_Step]_vars

\* card_c, whose reference has one segment, after another component was installed
C18_Witness ==
    /\ last.op = "update_component"
    /\ Call(last).name = "card_c"
    /\ Call(last).meta_reqs = <<>>
    /\ ~last.ret
    /\ version_json # <<>>
    /\ "card_c" \notin DOMAIN version_json


\* the outcomes of update_component(c) on the present files under the upstream responses
\* that the resolution chk of check_for_updates received
SameResponses(chk) ==
    { o \in update_component(chk.name, version_json, disk, now) :
          /\ o.trace.meta_reqs = chk.meta_reqs
          /\ o.trace.latest_info = chk.latest_info }

\* C19: check_for_updates, which leaves the stored state as it is, reports a component
\* exactly when update_component on that state and under the same upstream responses
\* starts downloading, resolving the same kind of revision; the 'latest' value it reports
\* is the identifier update_component arrives at and writes when its downloads succeed.
C19_DecisionAgreement ==
    last.op = "check_for_updates" =>
        \A i \in 1..Len(last.checks) :
            LET chk == last.checks[i]
                reported == chk.name \in DOMAIN last.updates_available
            IN  /\ SameResponses(chk) # {}
                /\ \A o \in SameResponses(chk) :
                       /\ o.trace.use_releases = chk.use_releases
                       /\ reported <=> o.trace.dl_reqs # <<>>
                       /\ reported <=> o.trace.exit \in {"updated", "download_failed"}
                       /\ reported =>
                             /\ last.updates_available[chk.name].latest = o.trace.latest_version
                             /\ o.ret => o.version_json[chk.name].version
                                             = last.updates_available[chk.name].latest

\* a check that finds card_b at its recorded commit and card_a behind the latest release
C19_Witness ==
    /\ last.op = "check_for_updates"
    /\ "card_a" \in DOMAIN last.updates_available
    /\ last.updates_available["card_a"].latest = Tag2
    /\ "card_a" \in DOMAIN version_json
    /\ "card_b" \in DOMAIN version_json
    /\ "card_b" \notin DOMAIN last.updates_available
    /\ Truthy(last.checks[2].latest_info)


\* the identifier of the revision that a run of component c with no failed request resolves
LiveLatest(c) ==
    IF Get(config[c], "use_releases", TRUE) THEN Identifier(LiveRelease, TRUE)
    ELSE Identifier(LiveMaster, FALSE)

\* component c holds the latest identifier, and every file listed in its record is on disk
\* with the recorded hash
Converged(c) ==
    /\ c \in DOMAIN version_json
    /\ Stored(version_json, c, Get(config[c], "use_releases", TRUE)) = LiveLatest(c)
    /\ \A j \in 1..Len(version_json[c].files) :
           LET dest == version_json[c].files[j] IN
           /\ dest \in DOMAIN disk
           /\ version_json[c].file_hashes[dest] = <<"sha256", disk[dest]>>

\* the last run was an update of c that a failed download aborted
Aborted(c) ==
    /\ last.op = "update_component"
    /\ Call(last).name = c
    /\ DownloadFailed(Call(last))

\* a run that follows an aborted run of the same component and resolves the same revision
\* requests the files again from the first one on
C20_ResumeStep ==
    \A c \in LiveComponents :
        (/\ Aborted(c)
         /\ last'.op = "update_component"
         /\ Call(last').name = c
         /\ Call(last').use_releases = Call(last).use_releases
         /\ Call(last').latest_info = Call(last).latest_info) =>
            /\ Call(last').dl_reqs # <<>>
            /\ Call(last').dl_reqs[1].dest = join(c, config[c].files[1].destination)
            /\ AllSucceeded(Call(last')) => Len(Call(last').dl_reqs) = Len(config[c].files)

\* a run without a failed request on a converged component does nothing
C20_NoopStep ==
    \A c \in LiveComponents :
        (/\ Converged(c)
         /\ last'.op = "update_component"
         /\ Call(last').name = c
         /\ AllSucceeded(Call(last'))) =>
            /\ last'.ret
            /\ Call(last').dl_reqs = <<>>
            /\ version_json' = version_json
            /\ disk' = disk

\* C20: with upstream unchanged, a run that follows an aborted run downloads every
\* configured file again from the first; if for each component a run with no failed
\* request eventually happens, an aborted run is eventually followed by a state in which
\* the stored identifier is the latest one and every listed file on disk has its recorded
\* hash; from such a state a run does nothing.
C20_ResumableConvergence ==
    /\ [][C20_ResumeStep]_vars
    /\ \A c \in LiveComponents : Aborted(c) ~> Converged(c)
    /\ [][C20_NoopStep]_vars

====
